---- MODULE Spec2Model ----
(***************************************************************************)
(* Model of the GreenGuard live audio session (src/App.tsx): the React     *)
(* component's state and refs, the connect / disconnect handlers, the      *)
(* callbacks bound to each Live API channel (onopen, onmessage, onclose,   *)
(* onerror), the suspended decode inside onmessage and the 'ended'         *)
(* listener of every scheduled buffer source.                              *)
(*                                                                         *)
(* Every call of handleConnect is an "attempt", numbered 1, 2, ...  The    *)
(* audio contexts, the microphone stream and the channel created by        *)
(* attempt a carry the number a; a ref holds such a number, or Null.       *)
(* process.env.API_KEY is taken to be set (App.tsx:70-73 is configuration  *)
(* loading, outside the session core).                                     *)
(***************************************************************************)
EXTENDS Integers, Sequences, FiniteSets, TLC

\* ------------------------------------------------------------------ bounds
\* What the environment does in one behaviour is bounded by a budget, one of
\* Budgets, fixed in the initial state: a long audio exchange in one session,
\* a tool-call exchange in one session, several sessions with audio, several
\* sessions with an interruption, several sessions with a tool call, or
\* several sessions with microphone frames.
MaxChunks     == 3    \* audio chunks of the long audio exchange
MaxInterrupts == 1    \* interrupted flags of the long audio exchange
MaxCalls      == 2    \* function calls of the tool-call exchange
MaxConnects   == 2    \* calls of handleConnect when there are several sessions
SessionChunks == 2    \* audio chunks when there are several sessions
MaxTime       == 2    \* largest value of an AudioContext's currentTime
MaxFrames     == 2    \* microphone frames when the capture path is exercised

Budgets ==
  { [connects |-> 1, chunks |-> MaxChunks, interrupts |-> MaxInterrupts, calls |-> 0, frames |-> 0],
    [connects |-> 1, chunks |-> 1, interrupts |-> 0, calls |-> MaxCalls, frames |-> 0],
    [connects |-> MaxConnects, chunks |-> SessionChunks, interrupts |-> 0, calls |-> 0, frames |-> 0],
    [connects |-> MaxConnects, chunks |-> 1, interrupts |-> 1, calls |-> 0, frames |-> 0],
    [connects |-> MaxConnects, chunks |-> 0, interrupts |-> 0, calls |-> 1, frames |-> 0],
    [connects |-> MaxConnects, chunks |-> 0, interrupts |-> 0, calls |-> 0,
     frames |-> MaxFrames] }

Null == 0                           \* a ref's null; attempts count from 1
Attempts == 1..MaxConnects          \* the numbers an attempt can carry
Durations == {1, 2}                 \* AudioBuffer.duration of a decoded chunk
NoAudio == 0                        \* a message without inlineData (a duration is positive)

\* ------------------------------------------------------- program constants
DISCONNECTED == "DISCONNECTED"
CONNECTING == "CONNECTING"
CONNECTED == "CONNECTED"
ERROR == "ERROR"

BookSiteVisit == "book_site_visit"
OtherTool == "get_weather"          \* any name the registry does not declare
Required == {"customerName", "address", "preferredTime"}
SuccessResult == "Visit successfully scheduled."

\* A function call's args: a function from the fields present to their values.
FieldValue(f, who) ==
  IF f = "customerName" THEN who
  ELSE IF f = "address" THEN "12 Elm St" ELSE "Friday 3pm"
MakeArgs(fields, who) == [f \in fields |-> FieldValue(f, who)]
ArgChoices ==
  { MakeArgs(Required, "Jane"),
    MakeArgs(Required \ {"address"}, "Jane"),
    MakeArgs(Required \ {"customerName"}, "Jane") }
\* args.customerName as JavaScript reads it: undefined when the field is absent
Field(args, f) == IF f \in DOMAIN args THEN args[f] ELSE "undefined"
CallChoices ==
  { [name |-> BookSiteVisit, args |-> g] : g \in ArgChoices }
    \cup { [name |-> OtherTool, args |-> MakeArgs(Required, "Jane")] }

VARIABLES
  \* React state
  connectionState, isSpeaking, lastLog, bookedVisits,
  \* refs
  sessionRef, inputAudioContextRef, outputAudioContextRef, outputNodeRef,
  nextStartTimeRef, sourcesRef,
  \* objects created by the attempts
  attempts,     \* number of handleConnect calls so far
  pc,           \* attempt -> where its handleConnect stands
  inCtx,        \* attempt -> state of its input AudioContext
  outCtx,       \* attempt -> state of its output AudioContext
  stream,       \* attempt -> state of its microphone MediaStream
  chan,         \* attempt -> state of its Live API channel
  capture,      \* attempt -> the script processor of onopen is wired
  now,          \* attempt -> currentTime of its output AudioContext
  decoding,     \* onmessage invocations suspended at await decodeAudioData
  sources,      \* every AudioBufferSourceNode started, in start order
  \* the remote side's view and the event history
  toolCalls,    \* function calls whose handling has run, in order
  toolResponses,\* tool responses handed to an open channel, in order
  chunks,       \* audio chunks received so far
  flagged,      \* messages received with the interrupted flag so far
  interrupts,   \* interruptions processed so far
  bumped,       \* a chunk arrived with currentTime beyond the cursor since the last start
  tornAgain,    \* the step just taken called handleDisconnect on a torn-down session
  pending,      \* attempt -> an audioprocess event of its script processor awaits dispatch
  framesSent,   \* microphone frames handed to an open channel so far
  budget        \* the environment's budget for this behaviour

stateVars == <<connectionState, isSpeaking, lastLog, bookedVisits>>
refVars == <<sessionRef, inputAudioContextRef, outputAudioContextRef, outputNodeRef,
             nextStartTimeRef, sourcesRef>>
objVars == <<attempts, pc, inCtx, outCtx, stream, chan, capture, now, decoding, sources>>
histVars == <<toolCalls, toolResponses, chunks, flagged, interrupts, bumped, budget>>
capVars == <<pending, framesSent>>
vars == <<stateVars, refVars, objVars, histVars, tornAgain, capVars>>

Init ==
  /\ connectionState = DISCONNECTED
  /\ isSpeaking = FALSE
  /\ lastLog = <<"Ready to start.">>
  /\ bookedVisits = <<>>
  /\ sessionRef = Null
  /\ inputAudioContextRef = Null
  /\ outputAudioContextRef = Null
  /\ outputNodeRef = Null
  /\ nextStartTimeRef = 0
  /\ sourcesRef = {}
  /\ attempts = 0
  /\ pc = [a \in Attempts |-> "none"]
  /\ inCtx = [a \in Attempts |-> "none"]
  /\ outCtx = [a \in Attempts |-> "none"]
  /\ stream = [a \in Attempts |-> "none"]
  /\ chan = [a \in Attempts |-> "none"]
  /\ capture = [a \in Attempts |-> FALSE]
  /\ now = [a \in Attempts |-> 0]
  /\ decoding = {}
  /\ sources = <<>>
  /\ toolCalls = <<>>
  /\ toolResponses = <<>>
  /\ chunks = 0
  /\ flagged = 0
  /\ interrupts = 0
  /\ bumped = FALSE
  /\ tornAgain = FALSE
  /\ pending = [a \in Attempts |-> FALSE]
  /\ framesSent = 0
  /\ budget \in Budgets

Max(a, b) == IF a >= b THEN a ELSE b

\* ------------------------------------------------------- handleDisconnect
\* AudioContext.close(): a running context closes; closing a closed one is the
\* InvalidStateError of a double release.
CloseContext(st) == IF st = "running" THEN "closed" ELSE "closedTwice"

RefAfterClose_Kept(ref) == ref

\* the ref after its context was closed (App.tsx:57, 61)
RefAfterClose(ref) == Null

\* the contexts after handleDisconnect closed the one `ref` holds
ContextsAfterClose(ctxs, ref) ==
  IF ref # Null THEN [ctxs EXCEPT ![ref] = CloseContext(@)] ELSE ctxs

\* the session as a call of handleDisconnect leaves it
TornDown ==
  /\ connectionState = DISCONNECTED
  /\ isSpeaking = FALSE
  /\ lastLog = <<"Disconnected.">>
  /\ sessionRef = Null
  /\ inputAudioContextRef = Null
  /\ outputAudioContextRef = Null

handleDisconnect ==
  /\ tornAgain' = TornDown
  /\ sessionRef' = Null
  /\ inCtx' = ContextsAfterClose(inCtx, inputAudioContextRef)
  /\ inputAudioContextRef' =
       IF inputAudioContextRef # Null THEN RefAfterClose(inputAudioContextRef) ELSE Null
  /\ outCtx' = ContextsAfterClose(outCtx, outputAudioContextRef)
  /\ outputAudioContextRef' =
       IF outputAudioContextRef # Null THEN RefAfterClose(outputAudioContextRef) ELSE Null
  /\ connectionState' = DISCONNECTED
  /\ isSpeaking' = FALSE
  /\ lastLog' = <<"Disconnected.">>

\* ---------------------------------------------------------- handleConnect
\* The synchronous part of handleConnect, up to await getUserMedia. `outcome`
\* is what the AudioContext constructors do: both succeed, the first throws,
\* or the second throws (the first context is then created and never stored).
handleConnect(outcome) ==
  LET a == attempts + 1 IN
  /\ attempts < budget.connects
  /\ attempts' = a
  /\ inCtx' = IF outcome = "inputFail" THEN inCtx ELSE [inCtx EXCEPT ![a] = "running"]
  /\ outCtx' = IF outcome = "ok" THEN [outCtx EXCEPT ![a] = "running"] ELSE outCtx
  /\ IF outcome = "ok"
       THEN /\ inputAudioContextRef' = a
            /\ outputAudioContextRef' = a
            /\ outputNodeRef' = a
            /\ pc' = [pc EXCEPT ![a] = "getUserMedia"]
            /\ connectionState' = CONNECTING
            /\ lastLog' = <<"Connecting to Gemini...">>
       ELSE /\ UNCHANGED <<inputAudioContextRef, outputAudioContextRef, outputNodeRef>>
            /\ pc' = [pc EXCEPT ![a] = "failed"]
            /\ connectionState' = ERROR
            /\ lastLog' = <<"Failed to connect: ", outcome>>
  /\ UNCHANGED <<isSpeaking, sessionRef>>

TogglesOff_Never(st) == FALSE

\* whether toggleConnection tears down rather than connects (App.tsx:216)
TogglesOff(st) == st = CONNECTED \/ st = CONNECTING

\* A click on the button, which is disabled while CONNECTING (App.tsx:298).
Click ==
  /\ connectionState # CONNECTING
  /\ IF TogglesOff(connectionState)
       THEN /\ handleDisconnect
            /\ UNCHANGED <<outputNodeRef, attempts, pc>>
       ELSE /\ \E outcome \in {"ok", "inputFail", "outputFail"} : handleConnect(outcome)
            /\ tornAgain' = FALSE
  /\ UNCHANGED <<bookedVisits, nextStartTimeRef, sourcesRef>>
  /\ UNCHANGED <<stream, chan, capture, now, decoding, sources>>
  /\ UNCHANGED histVars
  /\ UNCHANGED capVars

\* navigator.mediaDevices.getUserMedia resolves: the rest of the try block
\* runs, ai.live.connect opens a channel and sessionRef takes its promise.
GetUserMediaResolves(a) ==
  /\ pc[a] = "getUserMedia"
  /\ pc' = [pc EXCEPT ![a] = "done"]
  /\ stream' = [stream EXCEPT ![a] = "live"]
  /\ chan' = [chan EXCEPT ![a] = "opening"]
  /\ sessionRef' = a
  /\ UNCHANGED stateVars
  /\ UNCHANGED <<inputAudioContextRef, outputAudioContextRef, outputNodeRef,
                 nextStartTimeRef, sourcesRef>>
  /\ UNCHANGED <<attempts, inCtx, outCtx, capture, now, decoding, sources>>
  /\ UNCHANGED histVars
  /\ tornAgain' = FALSE
  /\ UNCHANGED capVars

\* getUserMedia rejects: the catch block.
GetUserMediaRejects(a) ==
  /\ pc[a] = "getUserMedia"
  /\ pc' = [pc EXCEPT ![a] = "failed"]
  /\ connectionState' = ERROR
  /\ lastLog' = <<"Failed to connect: ", "getUserMedia">>
  /\ UNCHANGED <<isSpeaking, bookedVisits>>
  /\ UNCHANGED refVars
  /\ UNCHANGED <<attempts, inCtx, outCtx, stream, chan, capture, now, decoding, sources>>
  /\ UNCHANGED histVars
  /\ tornAgain' = FALSE
  /\ UNCHANGED capVars

\* ------------------------------------------------------ channel callbacks
\* onopen of attempt a's channel.
OnOpen(a) ==
  /\ chan[a] = "opening"
  /\ chan' = [chan EXCEPT ![a] = "open"]
  /\ connectionState' = CONNECTED
  /\ lastLog' = <<"Connected! Say hello.">>
  /\ capture' = [capture EXCEPT ![a] = TRUE]
  /\ UNCHANGED <<isSpeaking, bookedVisits>>
  /\ UNCHANGED refVars
  /\ UNCHANGED <<attempts, pc, inCtx, outCtx, stream, now, decoding, sources>>
  /\ UNCHANGED histVars
  /\ tornAgain' = FALSE
  /\ UNCHANGED capVars

\* onclose of attempt a's channel: the socket closes from any live state, and
\* after an error.
OnClose(a) ==
  /\ chan[a] \in {"opening", "open", "errored"}
  /\ chan' = [chan EXCEPT ![a] = "closed"]
  /\ handleDisconnect
  /\ UNCHANGED <<bookedVisits, outputNodeRef, nextStartTimeRef, sourcesRef>>
  /\ UNCHANGED <<attempts, pc, stream, capture, now, decoding, sources>>
  /\ UNCHANGED histVars
  /\ UNCHANGED capVars

\* onerror of attempt a's channel: the log line it writes is overwritten by
\* the one handleDisconnect writes in the same batch. A socket that reported
\* an error delivers nothing more but its close.
OnError(a) ==
  /\ chan[a] \in {"opening", "open"}
  /\ chan' = [chan EXCEPT ![a] = "errored"]
  /\ handleDisconnect
  /\ UNCHANGED <<bookedVisits, outputNodeRef, nextStartTimeRef, sourcesRef>>
  /\ UNCHANGED <<attempts, pc, stream, capture, now, decoding, sources>>
  /\ UNCHANGED histVars
  /\ UNCHANGED capVars

\* --------------------------------------------------- onmessage: the pieces
CursorOnArrival_Now(cursor, currentTime) == currentTime

\* the cursor when a chunk is received (App.tsx:130)
CursorOnArrival(cursor, currentTime) == Max(cursor, currentTime)

CursorAfterStart_Stuck(cursor, duration) == cursor

\* the cursor after source.start (App.tsx:151)
CursorAfterStart(cursor, duration) == cursor + duration

CursorAfterInterrupt_Kept(cursor) == cursor

\* the cursor after an interruption (App.tsx:164)
CursorAfterInterrupt(cursor) == 0

\* sourcesRef after an interruption (App.tsx:163)
ActiveAfterInterrupt(active) == {}

\* s.stop() on every source of the active set (App.tsx:160-162)
StopAll(srcs, active) ==
  [i \in DOMAIN srcs |-> IF i \in active THEN [srcs[i] EXCEPT !.stopped = TRUE] ELSE srcs[i]]

\* The interruption block (App.tsx:157-165), run on the values the audio
\* block of the same invocation left.
Interruption(srcs, active, cursor) ==
  /\ lastLog' = <<"User interrupted model.">>
  /\ isSpeaking' = FALSE
  /\ sources' = StopAll(srcs, active)
  /\ sourcesRef' = ActiveAfterInterrupt(active)
  /\ nextStartTimeRef' = CursorAfterInterrupt(cursor)
  /\ interrupts' = interrupts + 1

\* A serverContent message on attempt a's channel: inlineData of a chunk that
\* decodes to `audio` seconds (or NoAudio) and the interrupted flag.
ServerContent(a, audio, interrupted) ==
  LET ctx == outputAudioContextRef
      node == outputNodeRef
  IN
  /\ chan[a] = "open"
  /\ audio # NoAudio \/ interrupted
  /\ audio # NoAudio => chunks < budget.chunks
  /\ interrupted => flagged < budget.interrupts
  /\ chunks' = IF audio # NoAudio THEN chunks + 1 ELSE chunks
  /\ flagged' = IF interrupted THEN flagged + 1 ELSE flagged
  /\ IF audio # NoAudio /\ ctx # Null /\ node # Null
       THEN \* up to the await: the rest runs when the decode settles
            /\ isSpeaking' = TRUE
            /\ nextStartTimeRef' = CursorOnArrival(nextStartTimeRef, now[ctx])
            /\ bumped' = (bumped \/ now[ctx] > nextStartTimeRef)
            /\ decoding' = decoding \cup
                 { [chunk |-> chunks + 1, ctx |-> ctx, chan |-> a, dur |-> audio,
                    interrupted |-> interrupted, arrNow |-> now[ctx],
                    arrEpoch |-> interrupts] }
            /\ UNCHANGED <<lastLog, sources, sourcesRef, interrupts>>
       ELSE /\ IF interrupted
                 THEN Interruption(sources, sourcesRef, nextStartTimeRef)
                 ELSE /\ isSpeaking' = TRUE
                      /\ UNCHANGED <<lastLog, sources, sourcesRef, nextStartTimeRef,
                                     interrupts>>
            /\ UNCHANGED <<decoding, bumped>>
  /\ UNCHANGED <<connectionState, bookedVisits>>
  /\ UNCHANGED <<sessionRef, inputAudioContextRef, outputAudioContextRef, outputNodeRef>>
  /\ UNCHANGED <<attempts, pc, inCtx, outCtx, stream, chan, capture, now>>
  /\ UNCHANGED <<toolCalls, toolResponses, budget>>
  /\ tornAgain' = FALSE
  /\ UNCHANGED capVars

\* How decodeAudioData (services/audioUtils) can settle for a chunk: the decode
\* may suspend, so it settles in a later step than the one that received the
\* chunk, and a malformed chunk makes it reject.
decodeAudioData(chunk) == {"resolves", "rejects"}

\* await decodeAudioData resolves for the suspended invocation x: the source
\* is created on the context read before the await, started at the cursor as
\* it is now, and tracked; then the interruption block of the same message.
DecodeResolves(x) ==
  LET i == Len(sources) + 1
      src == [chunk |-> x.chunk, ctx |-> x.ctx, when |-> nextStartTimeRef, dur |-> x.dur,
              at |-> now[x.ctx], arrNow |-> x.arrNow, arrEpoch |-> x.arrEpoch,
              epoch |-> interrupts, bumped |-> bumped, stopped |-> FALSE, ended |-> FALSE]
      started == Append(sources, src)
      active == sourcesRef \cup {i}
      cursor == CursorAfterStart(nextStartTimeRef, x.dur)
  IN
  /\ x \in decoding
  /\ "resolves" \in decodeAudioData(x.chunk)
  /\ decoding' = decoding \ {x}
  /\ bumped' = FALSE
  /\ IF x.interrupted
       THEN Interruption(started, active, cursor)
       ELSE /\ sources' = started
            /\ sourcesRef' = active
            /\ nextStartTimeRef' = cursor
            /\ UNCHANGED <<isSpeaking, lastLog, interrupts>>
  /\ UNCHANGED <<connectionState, bookedVisits>>
  /\ UNCHANGED <<sessionRef, inputAudioContextRef, outputAudioContextRef, outputNodeRef>>
  /\ UNCHANGED <<attempts, pc, inCtx, outCtx, stream, chan, capture, now>>
  /\ UNCHANGED <<toolCalls, toolResponses, chunks, flagged, budget>>
  /\ tornAgain' = FALSE
  /\ UNCHANGED capVars

\* await decodeAudioData rejects: the invocation ends there, nothing catches.
DecodeRejects(x) ==
  /\ x \in decoding
  /\ "rejects" \in decodeAudioData(x.chunk)
  /\ decoding' = decoding \ {x}
  /\ UNCHANGED stateVars
  /\ UNCHANGED refVars
  /\ UNCHANGED <<attempts, pc, inCtx, outCtx, stream, chan, capture, now, sources>>
  /\ UNCHANGED histVars
  /\ tornAgain' = FALSE
  /\ UNCHANGED capVars

\* whether the tool-call loop handles a function call (App.tsx:170)
Dispatches(fc) == fc.name = BookSiteVisit

ResponseFor_NoId(a, fc) ==
  [chan |-> a, id |-> 0, name |-> fc.name, result |-> SuccessResult]

\* the response sendToolResponse carries for fc (App.tsx:177-183)
ResponseFor(a, fc) ==
  [chan |-> a, id |-> fc.id, name |-> fc.name, result |-> SuccessResult]

\* what the loop adds to bookedVisits for fc (App.tsx:173)
BookingFor(fc) == fc.args

setBookedVisits_Prepend(prev, added) == added \o prev

\* the updater of setBookedVisits, [...prev, args], over the calls of one
\* message (App.tsx:173)
setBookedVisits(prev, added) == prev \o added

\* A toolCall message on attempt a's channel carrying the function calls
\* `calls`; the remote gives every call a fresh id.
ToolCall(a, calls) ==
  LET fcs == [i \in 1..Len(calls) |->
                [id |-> Len(toolCalls) + i, chan |-> a, name |-> calls[i].name,
                 args |-> calls[i].args]]
      handled == SelectSeq(fcs, Dispatches)
  IN
  /\ chan[a] = "open"
  /\ Len(toolCalls) + Len(calls) <= budget.calls
  /\ toolCalls' = toolCalls \o fcs
  /\ bookedVisits' =
       setBookedVisits(bookedVisits, [i \in 1..Len(handled) |-> BookingFor(handled[i])])
  /\ toolResponses' =
       toolResponses \o [i \in 1..Len(handled) |-> ResponseFor(a, handled[i])]
  /\ lastLog' = IF handled = <<>> THEN lastLog
                ELSE <<"Booking visit for ",
                       Field(handled[Len(handled)].args, "customerName"), "...">>
  /\ UNCHANGED <<connectionState, isSpeaking>>
  /\ UNCHANGED refVars
  /\ UNCHANGED objVars
  /\ UNCHANGED <<chunks, flagged, interrupts, bumped, budget>>
  /\ tornAgain' = FALSE
  /\ UNCHANGED capVars

\* the function-call lists a toolCall message may carry
CallLists == UNION { [1..n -> CallChoices] : n \in 1..2 }

\* ----------------------------------------------------- the audio hardware
\* The 'ended' listener of source i (App.tsx:143-148). The event fires on a
\* running context once the source was stopped or has played to its end.
Ended(i) ==
  LET s == sources[i] IN
  /\ i \in DOMAIN sources
  /\ ~s.ended
  /\ outCtx[s.ctx] = "running"
  /\ s.stopped \/ now[s.ctx] >= Max(s.when, s.at) + s.dur
  /\ sources' = [sources EXCEPT ![i].ended = TRUE]
  /\ sourcesRef' = sourcesRef \ {i}
  /\ isSpeaking' = IF sourcesRef \ {i} = {} THEN FALSE ELSE isSpeaking
  /\ UNCHANGED <<connectionState, lastLog, bookedVisits>>
  /\ UNCHANGED <<sessionRef, inputAudioContextRef, outputAudioContextRef, outputNodeRef,
                 nextStartTimeRef>>
  /\ UNCHANGED <<attempts, pc, inCtx, outCtx, stream, chan, capture, now, decoding>>
  /\ UNCHANGED histVars
  /\ tornAgain' = FALSE
  /\ UNCHANGED capVars

\* currentTime of a running output context advances.
Tick(a) ==
  /\ outCtx[a] = "running"
  /\ now[a] < MaxTime
  /\ now' = [now EXCEPT ![a] = @ + 1]
  /\ UNCHANGED stateVars
  /\ UNCHANGED refVars
  /\ UNCHANGED <<attempts, pc, inCtx, outCtx, stream, chan, capture, decoding, sources>>
  /\ UNCHANGED histVars
  /\ tornAgain' = FALSE
  /\ UNCHANGED capVars

\* The audio thread of attempt a's input context has filled a buffer of the
\* script processor and queues an audioprocess event for the main thread.
AudioProcessFires(a) ==
  /\ capture[a]
  /\ inCtx[a] = "running"
  /\ ~pending[a]
  /\ framesSent + Cardinality({b \in Attempts : pending[b]}) < budget.frames
  /\ pending' = [pending EXCEPT ![a] = TRUE]
  /\ UNCHANGED framesSent
  /\ UNCHANGED stateVars
  /\ UNCHANGED refVars
  /\ UNCHANGED objVars
  /\ UNCHANGED histVars
  /\ tornAgain' = FALSE

\* whether sendRealtimeInput hands a frame to the channel: the socket is open
Accepts(ch) == ch = "open"

\* scriptProcessor.onaudioprocess of attempt a (App.tsx:108-116): the queued
\* event is dispatched; sessionPromise has resolved by the time capture is
\* wired, so its then-callback sends the frame in the same turn.
onaudioprocess(a) ==
  /\ pending[a]
  /\ pending' = [pending EXCEPT ![a] = FALSE]
  /\ framesSent' = IF Accepts(chan[a]) THEN framesSent + 1 ELSE framesSent
  /\ UNCHANGED stateVars
  /\ UNCHANGED refVars
  /\ UNCHANGED objVars
  /\ UNCHANGED histVars
  /\ tornAgain' = FALSE

\* ------------------------------------------------------- the specification
Next ==
  \/ Click
  \/ \E a \in Attempts : GetUserMediaResolves(a)
  \/ \E a \in Attempts : GetUserMediaRejects(a)
  \/ \E a \in Attempts : OnOpen(a)
  \/ \E a \in Attempts : OnClose(a)
  \/ \E a \in Attempts : OnError(a)
  \/ \E a \in Attempts, audio \in Durations \cup {NoAudio}, interrupted \in BOOLEAN :
        ServerContent(a, audio, interrupted)
  \/ \E a \in Attempts, calls \in CallLists : ToolCall(a, calls)
  \/ \E x \in decoding : DecodeResolves(x)
  \/ \E x \in decoding : DecodeRejects(x)
  \/ \E i \in DOMAIN sources : Ended(i)
  \/ \E a \in Attempts : Tick(a)
  \/ \E a \in Attempts : AudioProcessFires(a)
  \/ \E a \in Attempts : onaudioprocess(a)

Spec == Init /\ [][Next]_vars

\* ---------------------------------------------------------------- claims
ResponsesTo(fc) ==
  {j \in DOMAIN toolResponses :
     toolResponses[j].id = fc.id /\ toolResponses[j].chan = fc.chan}
HasRequired(args) == Required \subseteq DOMAIN args
IsBooking(fc) == fc.name = BookSiteVisit

\* C1: every function call whose handling has run has exactly one tool
\* response with its id on its channel, whatever its name and arguments.
C1_OneResponsePerCall ==
  \A i \in DOMAIN toolCalls : Cardinality(ResponsesTo(toolCalls[i])) = 1

\* C2 as stated, for two chunks received one after the other in one session
\* and started in that order with no interruption processed from the receipt
\* of the first to the start of the second: the second is scheduled exactly
\* where the first one's slot ends.
C2_StartsAreCumulativeSums ==
  \A i \in DOMAIN sources :
    i > 1 =>
      LET p == sources[i - 1]
          s == sources[i]
      IN (/\ s.chunk = p.chunk + 1
          /\ s.ctx = p.ctx
          /\ p.arrEpoch = s.epoch
          /\ s.arrEpoch = s.epoch)
         => s.when = p.when + p.dur

\* C2 amended: of two sources started one after the other with no
\* interruption processed between the two starts, the second is scheduled at
\* or after the end of the first one's slot, and exactly at its end unless a
\* chunk was received in between when currentTime had passed the cursor.
C2_BackToBackUnlessLate ==
  \A i \in DOMAIN sources :
    i > 1 =>
      LET p == sources[i - 1]
          s == sources[i]
      IN p.epoch = s.epoch =>
           /\ s.when >= p.when + p.dur
           /\ (s.when = p.when + p.dur) <=> ~s.bumped

C2_Witness ==
  \E i \in DOMAIN sources :
    /\ i > 1
    /\ sources[i].chunk = sources[i - 1].chunk + 1
    /\ sources[i - 1].epoch = sources[i].epoch
    /\ sources[i].bumped
    /\ sources[i].when > sources[i - 1].when + sources[i - 1].dur

\* the sources an interruption finds in the active set: those tracked before
\* the step and the one the same invocation has just started
FoundActive == sourcesRef \cup (DOMAIN sources' \ DOMAIN sources)

\* C3 as stated: a processed interruption stops every source of the active
\* set, empties the set and leaves the cursor at the output context's
\* currentTime.
C3_InterruptResetsToNow ==
  [][interrupts' # interrupts =>
       /\ \A i \in FoundActive : sources'[i].stopped
       /\ sourcesRef' = {}
       /\ outputAudioContextRef # Null => nextStartTimeRef' = now[outputAudioContextRef]]_vars

\* C3 amended: a processed interruption stops every source of the active
\* set, empties the set and leaves the cursor at 0, which is never later
\* than the output context's currentTime.
C3_InterruptResetsToZero ==
  [][interrupts' # interrupts =>
       /\ \A i \in FoundActive : sources'[i].stopped
       /\ sourcesRef' = {}
       /\ nextStartTimeRef' = 0
       /\ outputAudioContextRef # Null => nextStartTimeRef' <= now[outputAudioContextRef]]_vars

C3_Witness ==
  /\ interrupts > 0
  /\ lastLog = <<"User interrupted model.">>
  /\ \E i \in DOMAIN sources : sources[i].stopped /\ ~sources[i].ended
  /\ sourcesRef = {}
  /\ nextStartTimeRef = 0
  /\ outputAudioContextRef # Null
  /\ now[outputAudioContextRef] > 0

C5_DisconnectIdempotent ==
  [][/\ tornAgain' =>
          /\ TornDown
          /\ UNCHANGED <<stateVars, refVars>>
          /\ UNCHANGED <<inCtx, outCtx, stream, capture, now, decoding, sources>>
     /\ \A a \in Attempts : inCtx'[a] # "closedTwice" /\ outCtx'[a] # "closedTwice"]_vars

C5_Witness == tornAgain /\ TornDown /\ \E a \in Attempts : outCtx[a] = "closed"

\* C6: a teardown of a CONNECTED session leaves the state DISCONNECTED, the
\* contexts the refs held closed, the session's microphone stream released,
\* no channel handle owned and the active set empty.
C6_TeardownReleasesAll ==
  [][(connectionState = CONNECTED /\ connectionState' = DISCONNECTED) =>
       /\ sessionRef' = Null
       /\ inputAudioContextRef # Null => inCtx'[inputAudioContextRef] = "closed"
       /\ outputAudioContextRef # Null => outCtx'[outputAudioContextRef] = "closed"
       /\ inputAudioContextRef' = Null /\ outputAudioContextRef' = Null
       /\ sessionRef # Null => stream'[sessionRef] # "live"
       /\ sourcesRef' = {}]_vars

\* C7: a book_site_visit call that lacks a required field adds no booking
\* and gets one response with its id that reports failure.
C7_InvalidCallRejected ==
  /\ \A k \in DOMAIN bookedVisits : HasRequired(bookedVisits[k])
  /\ \A i \in DOMAIN toolCalls :
       (IsBooking(toolCalls[i]) /\ ~HasRequired(toolCalls[i].args)) =>
         /\ Cardinality(ResponsesTo(toolCalls[i])) = 1
         /\ \A j \in ResponsesTo(toolCalls[i]) : toolResponses[j].result # SuccessResult

\* the place among the book_site_visit calls of the call at index i
Rank(i) == Cardinality({k \in 1..i : IsBooking(toolCalls[k])})

\* C8: a book_site_visit call with the three required fields has its
\* arguments as one record of the booking log, at the call's place among the
\* book_site_visit calls, and exactly one response with its id on its
\* channel, which carries the success result; no call adds a second record.
C8_ValidCallBooked ==
  /\ Len(bookedVisits) <= Cardinality({i \in DOMAIN toolCalls : IsBooking(toolCalls[i])})
  /\ \A i \in DOMAIN toolCalls :
       (IsBooking(toolCalls[i]) /\ HasRequired(toolCalls[i].args)) =>
         /\ Rank(i) \in DOMAIN bookedVisits
         /\ bookedVisits[Rank(i)] = toolCalls[i].args
         /\ Cardinality(ResponsesTo(toolCalls[i])) = 1
         /\ \A j \in ResponsesTo(toolCalls[i]) :
              /\ toolResponses[j].result = SuccessResult
              /\ toolResponses[j].name = BookSiteVisit

C8_Witness ==
  \E i \in DOMAIN toolCalls :
    /\ IsBooking(toolCalls[i]) /\ HasRequired(toolCalls[i].args)
    /\ i > 1 /\ ~IsBooking(toolCalls[1])

\* C9: when an interruption was processed after a chunk was started and
\* before the next chunk was received, that next chunk is scheduled at the
\* currentTime of its processing: not before the currentTime of its receipt
\* and not after the currentTime of its start.
C9_NextChunkStartsNow ==
  \A i, j \in DOMAIN sources :
    LET p == sources[i]
        s == sources[j]
    IN (/\ s.chunk = p.chunk + 1
        /\ s.ctx = p.ctx
        /\ p.epoch < s.arrEpoch
        /\ s.arrEpoch = s.epoch)
       => (s.arrNow <= s.when /\ s.when <= s.at)

\* C10: no source is started for a chunk that was received before an
\* interruption and whose decode settled after it.
C10_StaleChunkDiscarded ==
  \A i \in DOMAIN sources : sources[i].arrEpoch = sources[i].epoch

\* C11: of two chunks received on one output context with no interruption
\* processed from the receipt of the first to the start of either, the one
\* received first is scheduled at or before the other, whichever decode
\* settles first.
C11_SlotsInArrivalOrder ==
  \A i, j \in DOMAIN sources :
    LET p == sources[i]
        s == sources[j]
    IN (/\ p.chunk < s.chunk
        /\ p.ctx = s.ctx
        /\ p.arrEpoch = s.arrEpoch
        /\ p.epoch = p.arrEpoch
        /\ s.epoch = s.arrEpoch)
       => p.when <= s.when

\* C12: when the channel of a CONNECTING session reports an error before it
\* has opened, the state becomes ERROR, and the step starts no attempt.
C12_OpenFailureIsError ==
  [][\A a \in Attempts :
       (connectionState = CONNECTING /\ chan[a] = "opening" /\ chan'[a] = "errored") =>
          /\ connectionState' = ERROR
          /\ attempts' = attempts]_vars

\* the status lines the component writes for something other than a decode
IsOtherLog(log) ==
  log[1] \in {"Ready to start.", "Connecting to Gemini...", "Connected! Say hello.",
              "Disconnected.", "Failed to connect: ", "User interrupted model.",
              "Booking visit for "}

\* C13: a step in which a decode fails (a suspended invocation ends and no
\* source is started) adds nothing to the active set, leaves the cursor and
\* the connection state as they were, and leaves a status line that reports
\* the failure.
C13_FailedDecodeIsZeroDuration ==
  [][(decoding' # decoding /\ decoding' \subseteq decoding /\ sources' = sources) =>
       /\ sourcesRef' = sourcesRef
       /\ nextStartTimeRef' = nextStartTimeRef
       /\ connectionState' = connectionState
       /\ ~IsOtherLog(lastLog')]_vars

\* C14: a microphone frame is handed to a channel only while the state is
\* CONNECTED, so none is sent after a disconnect or a channel's close or
\* error event.
C14_FramesOnlyWhileConnected ==
  [][framesSent' # framesSent => connectionState = CONNECTED]_vars

\* C15: the first source started on an output context is scheduled no later
\* than that context's currentTime at the start: the cursor a session begins
\* with is not ahead of the session's clock.
C15_CursorStartsAtNow ==
  \A i \in DOMAIN sources :
    (\A k \in 1..(i - 1) : sources[k].ctx # sources[i].ctx) =>
       sources[i].when <= sources[i].at

\* C16: a step in which an attempt fails to acquire an audio context or the
\* microphone leaves no input context, no output context and no channel held
\* by the refs, no context of that attempt running, and the state ERROR or
\* DISCONNECTED.
C16_DeviceFailureTearsDown ==
  [][\A a \in Attempts :
       (pc[a] # "failed" /\ pc'[a] = "failed") =>
          /\ inputAudioContextRef' = Null
          /\ outputAudioContextRef' = Null
          /\ sessionRef' = Null
          /\ inCtx'[a] # "running"
          /\ outCtx'[a] # "running"
          /\ connectionState' \in {ERROR, DISCONNECTED}]_vars

\* C17: the state becomes CONNECTED only from CONNECTING, and capture is
\* wired only by a step taken in CONNECTING: an opened event that arrives
\* after the session was forced to DISCONNECTED changes neither.
C17_ConnectedOnlyFromConnecting ==
  [][/\ (connectionState # CONNECTED /\ connectionState' = CONNECTED) =>
          connectionState = CONNECTING
     /\ capture' # capture => connectionState = CONNECTING]_vars

\* C18: every source started and neither ended nor stopped by an
\* interruption is in the active set, and whenever the active set is empty
\* and no decode is suspended the speaking indicator is false.
C18_SpeakingFollowsActiveSet ==
  /\ \A i \in DOMAIN sources :
       (~sources[i].ended /\ ~sources[i].stopped) => i \in sourcesRef
  /\ (sourcesRef = {} /\ decoding = {}) => ~isSpeaking

\* C19: a step that lowers the cursor processes an interruption; every other
\* step (a chunk received or started, a source ended, a tool call, a connect
\* or a disconnect) leaves the cursor equal or larger.
C19_CursorNeverDecreases ==
  [][nextStartTimeRef' < nextStartTimeRef => interrupts' = interrupts + 1]_vars

\* audio was played to its end, the session was torn down and a second
\* attempt is under way, with the cursor where the first session left it
C19_Witness ==
  /\ nextStartTimeRef >= 2
  /\ interrupts = 0
  /\ \E i \in DOMAIN sources : sources[i].ended
  /\ attempts = 2
  /\ connectionState = CONNECTING

FromChannel(a) ==
  \/ chan'[a] # chan[a] /\ chan'[a] \in {"closed", "errored"}
  \/ Len(toolCalls') > Len(toolCalls) /\ toolCalls'[Len(toolCalls')].chan = a
  \/ /\ chunks' # chunks \/ flagged' # flagged
     /\ \A b \in Attempts \ {a} : chan[b] # "open"

\* C21: while a later attempt's session is connecting or connected, an event
\* of an earlier attempt's channel leaves the connection state, the speaking
\* indicator, the status line, the booking log, the refs (cursor and active
\* set included) and the audio contexts as they were, and sends no tool
\* response.
C21_AbandonedChannelIsInert ==
  [][\A a \in Attempts :
       (/\ a < attempts
        /\ connectionState \in {CONNECTING, CONNECTED}
        /\ FromChannel(a))
       => /\ UNCHANGED <<stateVars, refVars>>
          /\ UNCHANGED <<inCtx, outCtx>>
          /\ toolResponses' = toolResponses]_vars

====
